---- MODULE Spec2Model ----
(***************************************************************************)
(* dive25/utils/base64_decoder.py: decode_base64_file(input_file,          *)
(* output_file) run as a script.  One run of the process is one behaviour: *)
(* the command line and the file system are chosen in Init, and every      *)
(* statement of the function is one action.                                *)
(*                                                                         *)
(* Text is a sequence of code points, file data a sequence of bytes        *)
(* (0..255).  Paths are strings.  The input file is decoded as UTF-8, the  *)
(* locale encoding of open(..., 'r').                                      *)
(***************************************************************************)
EXTENDS Integers, Sequences, FiniteSets, TLC

VARIABLES args, output_file, fs, fs0, f_in, f_out, content, decoded,
          exc, stdout, stderr, status, pc

vars == <<args, output_file, fs, fs0, f_in, f_out, content, decoded,
          exc, stdout, stderr, status, pc>>

(***************************************************************************)
(* Bounds of the model.                                                    *)
(***************************************************************************)
\* longest input file drawn over TextBytes
MaxLen == 5
\* longest byte sequence B whose base64 encoding is drawn as an input file
MaxBytes == 3

\* 'Q', '=', ' ', '\n' and the two bytes of U+00E9, each of them invalid
\* UTF-8 on its own
TextBytes == {81, 61, 32, 10, 195, 169}
\* the bytes the encoded sequences B are made of
ByteSamples == {0, 65, 255}

SeqsUpTo(S, n) == UNION {[1..k -> S] : k \in 0..n}

(***************************************************************************)
(* Results of the library calls: a value, or the exception raised.         *)
(***************************************************************************)
Ok(v) == [ok |-> TRUE, val |-> v, type |-> "", msg |-> <<>>]
Raise(t, m) == [ok |-> FALSE, val |-> <<>>, type |-> t, msg |-> m]

(***************************************************************************)
(* open(input_file, 'r'); f.read(): the bytes of the file decoded as       *)
(* UTF-8 (strict), then universal-newline translation.                     *)
(***************************************************************************)
IsCont(b) == b >= 128 /\ b <= 191

\* number of bytes of the UTF-8 sequence starting at s[i]; 0 when invalid
Utf8Width(s, i) ==
    LET b == s[i]
        n == Len(s)
        c(k) == IF i + k <= n THEN s[i + k] ELSE 0
    IN  IF b < 128 THEN 1
        ELSE IF b >= 194 /\ b <= 223
            THEN IF IsCont(c(1)) THEN 2 ELSE 0
        ELSE IF b >= 224 /\ b <= 239
            THEN IF /\ IsCont(c(1)) /\ IsCont(c(2))
                    /\ (b = 224 => c(1) >= 160)
                    /\ (b = 237 => c(1) <= 159)
                 THEN 3 ELSE 0
        ELSE IF b >= 240 /\ b <= 244
            THEN IF /\ IsCont(c(1)) /\ IsCont(c(2)) /\ IsCont(c(3))
                    /\ (b = 240 => c(1) >= 144)
                    /\ (b = 244 => c(1) <= 143)
                 THEN 4 ELSE 0
        ELSE 0

Utf8CodePoint(s, i, w) ==
    CASE w = 1 -> s[i]
      [] w = 2 -> (s[i] % 32) * 64 + (s[i + 1] % 64)
      [] w = 3 -> (s[i] % 16) * 4096 + (s[i + 1] % 64) * 64 + (s[i + 2] % 64)
      [] w = 4 -> (s[i] % 8) * 262144 + (s[i + 1] % 64) * 4096
                  + (s[i + 2] % 64) * 64 + (s[i + 3] % 64)

RECURSIVE utf8_decode(_, _, _)
utf8_decode(s, i, out) ==
    IF i > Len(s) THEN Ok(out)
    ELSE LET w == Utf8Width(s, i)
         IN  IF w = 0
             THEN Raise("UnicodeDecodeError",
                        <<"'utf-8' codec can't decode byte", s[i], i - 1>>)
             ELSE utf8_decode(s, i + w, Append(out, Utf8CodePoint(s, i, w)))

\* newline=None on input: "\r\n" and "\r" become "\n"
RECURSIVE translate_newlines(_, _, _)
translate_newlines(t, i, out) ==
    IF i > Len(t) THEN out
    ELSE IF t[i] = 13
         THEN translate_newlines(
                  t, IF i < Len(t) /\ t[i + 1] = 10 THEN i + 2 ELSE i + 1,
                  Append(out, 10))
         ELSE translate_newlines(t, i + 1, Append(out, t[i]))

\* f.readline(): the text up to and including the first newline
readline(data) ==
    LET r == utf8_decode(data, 1, <<>>)
    IN  IF ~r.ok THEN r
        ELSE LET t == translate_newlines(r.val, 1, <<>>)
                 nl == {i \in 1..Len(t) : t[i] = 10}
             IN  IF nl = {} THEN Ok(t)
                 ELSE Ok(SubSeq(t, 1, CHOOSE i \in nl : \A j \in nl : i <= j))

\* f.read(): the whole file as text
read(data) ==
    LET r == utf8_decode(data, 1, <<>>)
    IN  IF ~r.ok THEN r ELSE Ok(translate_newlines(r.val, 1, <<>>))

(***************************************************************************)
(* str.strip(): leading and trailing characters with str.isspace() go.     *)
(***************************************************************************)
isspace(c) ==
    \/ c >= 9 /\ c <= 13
    \/ c >= 28 /\ c <= 32
    \/ c \in {133, 160, 5760, 8232, 8233, 8239, 8287, 12288}
    \/ c >= 8192 /\ c <= 8202

strip(t) ==
    LET keep == {i \in 1..Len(t) : ~isspace(t[i])}
    IN  IF keep = {} THEN <<>>
        ELSE SubSeq(t, CHOOSE i \in keep : \A j \in keep : i <= j,
                       CHOOSE i \in keep : \A j \in keep : i >= j)

(***************************************************************************)
(* base64.b64decode(s) with altchars=None, validate=False: the text has    *)
(* to be ASCII, then binascii.a2b_base64 in its non-strict mode.           *)
(***************************************************************************)
BASE64_PAD == 61

\* the table of the URL-safe alphabet: '-' and '_' for '+' and '/'
table_a2b_urlsafe(c) ==
    IF c >= 65 /\ c <= 90 THEN c - 65
    ELSE IF c >= 97 /\ c <= 122 THEN c - 97 + 26
    ELSE IF c >= 48 /\ c <= 57 THEN c - 48 + 52
    ELSE IF c = 45 THEN 62
    ELSE IF c = 95 THEN 63
    ELSE 255

\* the value of a character of the alphabet A-Z a-z 0-9 + /, 255 otherwise
table_a2b_base64(c) ==
    IF c >= 65 /\ c <= 90 THEN c - 65
    ELSE IF c >= 97 /\ c <= 122 THEN c - 97 + 26
    ELSE IF c >= 48 /\ c <= 57 THEN c - 48 + 52
    ELSE IF c = 43 THEN 62
    ELSE IF c = 47 THEN 63
    ELSE 255

InAlphabet(c) == table_a2b_base64(c) < 64

IncorrectPadding == Raise("binascii.Error", <<"Incorrect padding">>)

DataCharsError(n) ==
    Raise("binascii.Error",
          <<"Invalid base64-encoded string: number of data characters",
            n, "cannot be 1 more than a multiple of 4">>)

RECURSIVE a2b_base64(_, _, _, _, _, _)
a2b_base64(s, i, quad_pos, leftchar, pads, out) ==
    IF i > Len(s)
    THEN IF quad_pos = 0 THEN Ok(out)
         ELSE IF quad_pos = 1 THEN DataCharsError((Len(out) \div 3) * 4 + 1)
         ELSE IncorrectPadding
    ELSE IF s[i] = BASE64_PAD
    THEN IF quad_pos >= 2 /\ quad_pos + pads + 1 >= 4
         THEN Ok(out)
         ELSE a2b_base64(s, i + 1, quad_pos, leftchar,
                         IF quad_pos >= 2 THEN pads + 1 ELSE pads, out)
    ELSE LET v == table_a2b_base64(s[i])
         IN  IF v >= 64
             THEN a2b_base64(s, i + 1, quad_pos, leftchar, pads, out)
             ELSE CASE quad_pos = 0 ->
                         a2b_base64(s, i + 1, 1, v, 0, out)
                    [] quad_pos = 1 ->
                         a2b_base64(s, i + 1, 2, v % 16, 0,
                                    Append(out, (leftchar * 4 + v \div 16) % 256))
                    [] quad_pos = 2 ->
                         a2b_base64(s, i + 1, 3, v % 4, 0,
                                    Append(out, (leftchar * 16 + v \div 4) % 256))
                    [] quad_pos = 3 ->
                         a2b_base64(s, i + 1, 0, 0, 0,
                                    Append(out, (leftchar * 64 + v) % 256))

NotAscii == Raise("ValueError",
                  <<"string argument should contain only ASCII characters">>)

\* a decoder that rejects a length that is no multiple of 4 and every
\* character outside the alphabet (validate=True with a length check)
b64decode_strict(s) ==
    IF \E i \in 1..Len(s) : s[i] >= 128 THEN NotAscii
    ELSE IF Len(s) % 4 # 0 THEN IncorrectPadding
    ELSE IF \E i \in 1..Len(s) : ~InAlphabet(s[i]) /\ s[i] # BASE64_PAD
         THEN Raise("binascii.Error", <<"Only base64 data is allowed">>)
    ELSE a2b_base64(s, 1, 0, 0, 0, <<>>)

\* a decoder that refuses the empty string
b64decode_nonempty(s) ==
    IF s = <<>> THEN Raise("ValueError", <<"empty input">>)
    ELSE IF \E i \in 1..Len(s) : s[i] >= 128 THEN NotAscii
    ELSE a2b_base64(s, 1, 0, 0, 0, <<>>)

b64decode(s) ==
    IF \E i \in 1..Len(s) : s[i] >= 128 THEN NotAscii
    ELSE a2b_base64(s, 1, 0, 0, 0, <<>>)

(***************************************************************************)
(* base64.b64encode(B), the standard encoding the input files of the       *)
(* round trip are written with.                                            *)
(***************************************************************************)
table_b2a_base64(v) ==
    IF v < 26 THEN 65 + v
    ELSE IF v < 52 THEN 97 + v - 26
    ELSE IF v < 62 THEN 48 + v - 52
    ELSE IF v = 62 THEN 43
    ELSE 47

RECURSIVE b64encode(_)
b64encode(B) ==
    IF Len(B) = 0 THEN <<>>
    ELSE IF Len(B) = 1
    THEN <<table_b2a_base64(B[1] \div 4), table_b2a_base64((B[1] % 4) * 16),
           BASE64_PAD, BASE64_PAD>>
    ELSE IF Len(B) = 2
    THEN <<table_b2a_base64(B[1] \div 4),
           table_b2a_base64((B[1] % 4) * 16 + B[2] \div 16),
           table_b2a_base64((B[2] % 16) * 4), BASE64_PAD>>
    ELSE <<table_b2a_base64(B[1] \div 4),
           table_b2a_base64((B[1] % 4) * 16 + B[2] \div 16),
           table_b2a_base64((B[2] % 16) * 4 + B[3] \div 64),
           table_b2a_base64(B[3] % 64)>>
         \o b64encode(SubSeq(B, 4, Len(B)))

(***************************************************************************)
(* The command line (argparse, lines 27-30) and the file system.           *)
(***************************************************************************)
\* args.output when -o/--output is absent
None == <<>>
Given(q) == <<q>>

InputPaths == {"in", "gone"}
OutputArgs == {None, Given(""), Given("out"), Given("in")}

\* what the file "out" holds before the run
Junk == <<7>>

\* the input files: every text over TextBytes, and the encoding of every B
Encoded == {b64encode(B) : B \in SeqsUpTo(ByteSamples, MaxBytes)}
Contents == SeqsUpTo(TextBytes, MaxLen) \cup Encoded

input_file == args.input

NoExit == -1
NoExc == [step |-> "", type |-> "", msg |-> <<>>]
Exc(step, r) == [step |-> step, type |-> r.type, msg |-> r.msg]

\* the files of the file system fsys with path holding data
WriteFile(fsys, path, data) ==
    [p \in DOMAIN fsys \cup {path} |-> IF p = path THEN data ELSE fsys[p]]

\* a file object that is never closed
close_leak(handle) == handle

\* leaving a with block, normally or by an exception, closes its file
close(handle) == "closed"

Init ==
    /\ args \in [input : InputPaths, output : OutputArgs]
    /\ output_file = args.output
    /\ \E raw \in Contents : fs = [p \in {"in", "out"} |->
                                      IF p = "in" THEN raw ELSE Junk]
    /\ fs0 = fs
    /\ f_in = "none"
    /\ f_out = "none"
    /\ content = <<>>
    /\ decoded = <<>>
    /\ exc = NoExc
    /\ stdout = <<>>
    /\ stderr = <<>>
    /\ status = NoExit
    /\ pc = "open_in"

(***************************************************************************)
(* decode_base64_file, statement by statement.                             *)
(***************************************************************************)
\* line 10: with open(input_file, 'r') as f
OpenInput ==
    /\ pc = "open_in"
    /\ IF input_file = "" \/ input_file \notin DOMAIN fs
       THEN /\ exc' = Exc("open_in", Raise("FileNotFoundError",
                          <<"[Errno 2] No such file or directory", input_file>>))
            /\ pc' = "except"
            /\ f_in' = f_in
       ELSE /\ f_in' = "open"
            /\ pc' = "read"
            /\ exc' = exc
    /\ UNCHANGED <<args, output_file, fs, fs0, f_out, content, decoded,
                   stdout, stderr, status>>

\* line 11: content = f.read().strip(); an exception leaves the with block,
\* which closes f
ReadInput ==
    /\ pc = "read"
    /\ LET r == read(fs[input_file])
       IN  IF r.ok
           THEN /\ content' = strip(r.val)
                /\ pc' = "close_in"
                /\ UNCHANGED <<exc, f_in>>
           ELSE /\ exc' = Exc("read", r)
                /\ f_in' = close(f_in)
                /\ pc' = "except"
                /\ content' = content
    /\ UNCHANGED <<args, output_file, fs, fs0, f_out, decoded,
                   stdout, stderr, status>>

\* end of the with block of line 10
CloseInput ==
    /\ pc = "close_in"
    /\ f_in' = close(f_in)
    /\ pc' = "decode"
    /\ UNCHANGED <<args, output_file, fs, fs0, f_out, content, decoded,
                   exc, stdout, stderr, status>>

\* the output opened (and so truncated) before the content is decoded
DecodeAfterOpen ==
    /\ pc = "decode"
    /\ fs' = WriteFile(fs, IF output_file = None \/ output_file[1] = ""
                           THEN input_file \o ".decoded" ELSE output_file[1],
                       <<>>)
    /\ LET r == b64decode(content)
       IN  IF r.ok
           THEN /\ decoded' = r.val
                /\ pc' = "default_out"
                /\ exc' = exc
           ELSE /\ exc' = Exc("decode", r)
                /\ pc' = "except"
                /\ decoded' = decoded
    /\ UNCHANGED <<args, output_file, fs0, f_in, f_out, content,
                   stdout, stderr, status>>

\* line 13: decoded = base64.b64decode(content)
Decode ==
    /\ pc = "decode"
    /\ LET r == b64decode(content)
       IN  IF r.ok
           THEN /\ decoded' = r.val
                /\ pc' = "default_out"
                /\ exc' = exc
           ELSE /\ exc' = Exc("decode", r)
                /\ pc' = "except"
                /\ decoded' = decoded
    /\ UNCHANGED <<args, output_file, fs, fs0, f_in, f_out, content,
                   stdout, stderr, status>>

\* `output_file is None`
IsNone(o) == o = None

\* the test inverted: `if output_file`
Truthy(o) == o # None /\ o[1] # ""

\* `not output_file`: None and the empty string are falsy
Falsy(o) == o = None \/ o[1] = ""

\* lines 15-16: if not output_file: output_file = input_file + '.decoded'
DefaultOutput ==
    /\ pc = "default_out"
    /\ output_file' = IF Falsy(output_file)
                      THEN Given(input_file \o ".decoded")
                      ELSE output_file
    /\ pc' = "open_out"
    /\ UNCHANGED <<args, fs, fs0, f_in, f_out, content, decoded,
                   exc, stdout, stderr, status>>

\* line 18: with open(output_file, 'wb') as f: creates or truncates the file,
\* or fails (no such directory, no permission) and leaves the files alone
OpenOutput ==
    /\ pc = "open_out"
    /\ IF output_file = None \/ output_file[1] = ""
       THEN /\ exc' = Exc("open_out", Raise("FileNotFoundError",
                          <<"[Errno 2] No such file or directory", "">>))
            /\ pc' = "except"
            /\ UNCHANGED <<fs, f_out>>
       ELSE \/ /\ fs' = WriteFile(fs, output_file[1], <<>>)
               /\ f_out' = "open"
               /\ pc' = "write"
               /\ exc' = exc
            \/ /\ exc' = Exc("open_out", Raise("PermissionError",
                             <<"[Errno 13] Permission denied", output_file[1]>>))
               /\ pc' = "except"
               /\ UNCHANGED <<fs, f_out>>
    /\ UNCHANGED <<args, output_file, fs0, f_in, content, decoded,
                   stdout, stderr, status>>

\* line 19: f.write(decoded); when the device fails, a prefix of the bytes
\* is in the file and the with block closes f on the way out
WriteOutput ==
    /\ pc = "write"
    /\ \/ /\ fs' = WriteFile(fs, output_file[1], decoded)
          /\ pc' = "close_out"
          /\ UNCHANGED <<exc, f_out>>
       \/ \E k \in 0..Len(decoded) :
          /\ fs' = WriteFile(fs, output_file[1], SubSeq(decoded, 1, k))
          /\ exc' = Exc("write", Raise("OSError",
                        <<"[Errno 28] No space left on device">>))
          /\ f_out' = close(f_out)
          /\ pc' = "except"
    /\ UNCHANGED <<args, output_file, fs0, f_in, content, decoded,
                   stdout, stderr, status>>

\* end of the with block of line 18
CloseOutput ==
    /\ pc = "close_out"
    /\ f_out' = close(f_out)
    /\ pc' = "print"
    /\ UNCHANGED <<args, output_file, fs, fs0, f_in, content, decoded,
                   exc, stdout, stderr, status>>

SuccessLine == <<"Decoded ", input_file, " to ", output_file[1]>>

\* line 21: print(f"Decoded {input_file} to {output_file}"); the print is
\* inside the try, so a failure to encode or write the line is caught too
PrintSuccess ==
    /\ pc = "print"
    /\ \/ /\ stdout' = Append(stdout, SuccessLine)
          /\ pc' = "return"
          /\ exc' = exc
       \/ /\ exc' = Exc("print", Raise("UnicodeEncodeError",
                        <<"codec can't encode character">>))
          /\ pc' = "except"
          /\ stdout' = stdout
    /\ UNCHANGED <<args, output_file, fs, fs0, f_in, f_out, content, decoded,
                   stderr, status>>

\* the classes `except Exception` catches
ExceptionClasses ==
    {"FileNotFoundError", "PermissionError", "OSError", "UnicodeDecodeError",
     "UnicodeEncodeError", "ValueError", "binascii.Error"}

\* except OSError
CatchesOSError(type) ==
    type \in {"FileNotFoundError", "PermissionError", "OSError"}

Catches(type) == type \in ExceptionClasses

ErrorLine(e) == <<"Error: ", e.msg>>

\* what the interpreter prints for an exception nobody caught
Traceback(e) == <<<<"Traceback (most recent call last):">>, <<e.type, e.msg>>>>

\* the handler without its sys.exit(1): the function returns normally
HandleErrorNoExit ==
    /\ pc = "except"
    /\ stderr' = Append(stderr, <<"Error: ", exc.msg>>)
    /\ status' = 0
    /\ pc' = "exited"
    /\ UNCHANGED <<args, output_file, fs, fs0, f_in, f_out, content, decoded,
                   exc, stdout>>

\* lines 22-24: print(f"Error: {e}", file=sys.stderr); sys.exit(1)
HandleError ==
    /\ pc = "except"
    /\ stderr' = IF Catches(exc.type)
                 THEN Append(stderr, ErrorLine(exc))
                 ELSE stderr \o Traceback(exc)
    /\ status' = 1
    /\ pc' = "exited"
    /\ UNCHANGED <<args, output_file, fs, fs0, f_in, f_out, content, decoded,
                   exc, stdout>>

\* line 32: the function returns and the script ends
Return ==
    /\ pc = "return"
    /\ status' = 0
    /\ pc' = "exited"
    /\ UNCHANGED <<args, output_file, fs, fs0, f_in, f_out, content, decoded,
                   exc, stdout, stderr>>

Next ==
    \/ OpenInput
    \/ ReadInput
    \/ CloseInput
    \/ Decode
    \/ DefaultOutput
    \/ OpenOutput
    \/ WriteOutput
    \/ CloseOutput
    \/ PrintSuccess
    \/ HandleError
    \/ Return

Spec == Init /\ [][Next]_vars

TypeOK ==
    /\ pc \in {"open_in", "read", "close_in", "decode", "default_out",
               "open_out", "write", "close_out", "print", "except",
               "return", "exited"}
    /\ status \in {NoExit, 0, 1}
    /\ f_in \in {"none", "open", "closed"}
    /\ f_out \in {"none", "open", "closed"}

(***************************************************************************)
(* Properties.                                                             *)
(***************************************************************************)
Exited == pc = "exited"

\* the file the run read, as it was before the run
Raw == fs0[input_file]

\* the input was opened, read and stripped, and the decode step has run
DecodeRan ==
    \/ pc \in {"default_out", "open_out", "write", "close_out", "print",
               "return"}
    \/ exc.step \in {"decode", "open_out", "write", "print"}
    \/ Exited /\ exc.step = ""

\* C1: whichever step fails (opening or reading the input, decoding,
\* opening or writing the output, printing the success line), the exception
\* goes straight to the handler, exactly the line "Error: <description>" is
\* on standard error and the exit status is 1; a run in which no step fails
\* exits with status 0.
C1_ErrorBoundary ==
    /\ exc.step # "" => pc \in {"except", "exited"}
    /\ pc = "except" => exc.step # ""
    /\ Exited =>
          IF exc.step = ""
          THEN status = 0 /\ stderr = <<>>
          ELSE status = 1 /\ stderr = <<ErrorLine(exc)>>

C1_Witness ==
    /\ Exited
    /\ exc.step = "decode"
    /\ exc.type = "binascii.Error"
    /\ status = 1
    /\ stderr = <<ErrorLine(exc)>>

\* the pairs <<B, b64encode(B)>>
EncodedPairs ==
    {<<B, b64encode(B)>> : B \in SeqsUpTo(ByteSamples, MaxBytes)}

\* C2: when the input file holds b64encode(B), the read and the decode do
\* not fail, the decoded bytes are B, and unless opening or writing the
\* output fails the output file holds exactly B when the run ends.
C2_RoundTrip ==
    (Exited /\ input_file \in DOMAIN fs0) =>
        \A p \in EncodedPairs :
            Raw = p[2] =>
                /\ exc.step \notin {"open_in", "read", "decode"}
                /\ decoded = p[1]
                /\ exc.step \in {"", "print"} => fs[output_file[1]] = p[1]
                /\ exc.step = "" => status = 0

C2_Witness ==
    /\ Exited
    /\ status = 0
    /\ Raw = b64encode(<<0, 65, 255>>)
    /\ args.output = None
    /\ fs["in.decoded"] = <<0, 65, 255>>

\* the characters of t that are in the base64 alphabet or are '='
RECURSIVE Significant(_)
Significant(t) ==
    IF t = <<>> THEN <<>>
    ELSE IF InAlphabet(Head(t)) \/ Head(t) = BASE64_PAD
         THEN <<Head(t)>> \o Significant(Tail(t))
         ELSE Significant(Tail(t))

AlphabetCount(t) == Cardinality({i \in 1..Len(t) : InAlphabet(t[i])})

\* the decode raised: no success line, and the run ends with the error line
\* and status 1
DecodeFailed ==
    /\ exc.step = "decode"
    /\ stdout = <<>>
    /\ Exited => status = 1 /\ stderr = <<ErrorLine(exc)>>

\* C3, as claimed: decoding fails for every stripped content whose length
\* is no multiple of 4 and for every stripped content with a character
\* outside the alphabet other than '='.
C3_Original ==
    (/\ DecodeRan
     /\ \/ Len(content) % 4 # 0
        \/ \E i \in 1..Len(content) :
              ~InAlphabet(content[i]) /\ content[i] # BASE64_PAD)
    => DecodeFailed

\* C3, amended: decoding fails for every stripped content without '=' whose
\* number of alphabet characters is no multiple of 4, and for every
\* stripped content with a non-ASCII character.  ASCII characters outside
\* the alphabet are discarded: the content decodes, or fails, exactly as
\* the content without them does.
C3_Amended ==
    DecodeRan =>
        /\ (/\ \A i \in 1..Len(content) : content[i] # BASE64_PAD
            /\ AlphabetCount(content) % 4 # 0) => DecodeFailed
        /\ (\E i \in 1..Len(content) : content[i] >= 128) => DecodeFailed
        /\ (\A i \in 1..Len(content) : content[i] < 128) =>
              LET r == b64decode(Significant(content))
              IN  IF r.ok
                  THEN exc.step # "decode" /\ decoded = r.val
                  ELSE DecodeFailed /\ exc.type = r.type /\ exc.msg = r.msg

\* 'Q Q==' decodes to 'A'
C3_Witness ==
    /\ Exited
    /\ DecodeRan
    /\ content = <<81, 32, 81, 61, 61>>
    /\ decoded = <<65>>
    /\ status = 0

\* the files other than path are as they were before the run
OnlyChanged(path) ==
    /\ DOMAIN fs \subseteq DOMAIN fs0 \cup {path}
    /\ \A p \in DOMAIN fs0 : p \in DOMAIN fs /\ (p # path => fs[p] = fs0[p])

\* C4, as claimed: a successful run with -o Q writes the decoded bytes to
\* Q, for every string Q, and to input + '.decoded' without -o.
C4_Original ==
    (Exited /\ status = 0) =>
        LET target == IF args.output # None THEN args.output[1]
                      ELSE input_file \o ".decoded"
        IN  /\ target \in DOMAIN fs
            /\ fs[target] = decoded
            /\ OnlyChanged(target)

\* C4, amended: a successful run writes the decoded bytes to Q when a
\* non-empty Q is given with -o, and to input + '.decoded' when -o is absent
\* or empty; in every state of every run no other file is created or
\* modified.
C4_Amended ==
    LET target == IF args.output # None /\ args.output[1] # ""
                  THEN args.output[1]
                  ELSE input_file \o ".decoded"
    IN  /\ OnlyChanged(target)
        /\ (Exited /\ status = 0) =>
              /\ target \in DOMAIN fs
              /\ fs[target] = decoded
              /\ output_file = Given(target)

C4_Witness ==
    /\ Exited
    /\ status = 0
    /\ args.output = Given("out")
    /\ decoded # <<>>
    /\ fs["out"] = decoded
    /\ "in.decoded" \notin DOMAIN fs

\* the contents that raw is a padding of: raw without some of its leading
\* and trailing spaces and newlines
Cores(raw) ==
    {SubSeq(raw, i, j) : <<i, j>> \in
        {q \in (1..Len(raw) + 1) \X (0..Len(raw)) :
            /\ q[1] <= q[2] + 1
            /\ \A k \in 1..Len(raw) :
                  (k < q[1] \/ k > q[2]) => raw[k] \in {32, 10}}}

\* what a run on a file holding data does up to the decode
Outcome(data) ==
    LET r == read(data)
    IN  IF ~r.ok THEN [step |-> "read", res |-> r]
        ELSE [step |-> "decode", res |-> b64decode(strip(r.val))]

\* C5: a run on a content padded with leading and trailing spaces and
\* newlines ends as the run on the content itself: the same decoded bytes,
\* in the output file when the output is written, or the same failure (an
\* undecodable file fails in the read with the same exception, a content
\* that is not base64 fails in the decode with the same message).
C5_WhitespaceTolerance ==
    (Exited /\ exc.step # "open_in") =>
        \A c \in Cores(Raw) :
            LET o == Outcome(c)
            IN  IF o.res.ok
                THEN /\ exc.step \notin {"read", "decode"}
                     /\ decoded = o.res.val
                     /\ exc.step \in {"", "print"} =>
                           fs[output_file[1]] = o.res.val
                ELSE /\ exc.step = o.step
                     /\ exc.type = o.res.type
                     /\ o.step = "decode" => exc.msg = o.res.msg
                     /\ status = 1

C5_Witness ==
    /\ Exited
    /\ status = 0
    /\ Raw = <<10, 81, 81, 61, 61>>
    /\ <<81, 81, 61, 61>> \in Cores(Raw)
    /\ args.output = Given("out")
    /\ fs["out"] = <<65>>

\* C6: a run that has ended has printed exactly one line: the success line
\* on standard output, nothing on standard error and status 0, or the error
\* line on standard error, nothing on standard output and status 1.  The
\* success line is there only once the output file holds the decoded bytes
\* and is closed.
C6_OneMessage ==
    /\ Exited =>
          IF stdout # <<>>
          THEN stdout = <<SuccessLine>> /\ stderr = <<>> /\ status = 0
          ELSE stderr = <<ErrorLine(exc)>> /\ status = 1
    /\ ~Exited => stderr = <<>> /\ Len(stdout) <= 1
    /\ stdout # <<>> =>
          /\ stdout = <<SuccessLine>>
          /\ f_out = "closed"
          /\ fs[output_file[1]] = decoded

C6_Witness ==
    /\ Exited
    /\ status = 0
    /\ stdout = <<SuccessLine>>
    /\ stderr = <<>>
    /\ f_out = "closed"
    /\ decoded # <<>>

\* C7: when the input file is empty or holds only whitespace, the decode
\* does not fail and yields no bytes; unless opening or writing the output
\* fails the output file ends with length zero, and when no step fails the
\* success line is printed and the status is 0.
C7_EmptyInput ==
    (/\ Exited
     /\ input_file \in DOMAIN fs0
     /\ \A i \in 1..Len(Raw) : Raw[i] < 128 /\ isspace(Raw[i]))
    => /\ exc.step \notin {"open_in", "read", "decode"}
       /\ content = <<>>
       /\ decoded = <<>>
       /\ exc.step \in {"", "print"} => fs[output_file[1]] = <<>>
       /\ exc.step = "" => status = 0 /\ stdout = <<SuccessLine>>

C7_Witness ==
    /\ Exited
    /\ status = 0
    /\ Raw = <<32, 10>>
    /\ args.output = Given("out")
    /\ fs["out"] = <<>>
    /\ stdout = <<SuccessLine>>

\* C8: the input handle is closed before the output handle is opened, the
\* two are never open together, and no handle is open once an exception has
\* left the try body or the run has ended.
C8_HandlesClosed ==
    /\ ~(f_in = "open" /\ f_out = "open")
    /\ f_out # "none" => f_in = "closed"
    /\ pc \in {"except", "return", "exited"} =>
          f_in # "open" /\ f_out # "open"
    /\ pc \in {"decode", "default_out", "open_out"} => f_in = "closed"
    /\ pc = "print" => f_out = "closed"

C8_Witness ==
    /\ pc = "except"
    /\ exc.step = "read"
    /\ f_in = "closed"
    /\ f_out = "none"

\* C9: whenever the output file is about to be opened, is open or has been
\* opened, the effective output path is a non-empty string.
C9_OutputPathNonEmpty ==
    (pc \in {"open_out", "write", "close_out"} \/ f_out # "none") =>
        output_file # None /\ output_file[1] # ""

C9_Witness ==
    /\ pc = "write"
    /\ f_out = "open"
    /\ args.output = Given("")
    /\ output_file = Given("in.decoded")

\* C10: the files are as they were before the run until the decode has
\* succeeded: a run whose open, read or decode fails never opens the output
\* and leaves every file, the output and the input included, untouched.
C10_NoOutputBeforeDecode ==
    /\ pc \in {"open_in", "read", "close_in", "decode", "default_out",
               "open_out"} => fs = fs0 /\ f_out = "none"
    /\ exc.step \in {"open_in", "read", "decode", "open_out"} =>
          fs = fs0 /\ f_out = "none"
    /\ (fs # fs0 \/ f_out # "none") =>
          /\ f_in = "closed"
          /\ b64decode(content).ok
          /\ b64decode(content).val = decoded

C10_Witness ==
    /\ Exited
    /\ exc.step = "decode"
    /\ args.output = Given("in")
    /\ fs = fs0
    /\ f_out = "none"
    /\ status = 1

====
